---- MODULE Spec2Model ----
(***************************************************************************)
(* Session state synchronisation of the ShoppingAssistant view             *)
(* (frontend/src/components/ShoppingAssistant.jsx): the React state of the *)
(* component, the raw WebSocket it listens on, and the HTTP requests of    *)
(* handleSubmit, of its statusInterval poll loop and of the Stop button.   *)
(*                                                                         *)
(* Every handler runs to completion on the single UI thread, so one        *)
(* action is one handler run (or one resumption of an async function       *)
(* after an await).  Requests in flight are counted per closure that       *)
(* issued them; the backend's answers are nondeterministic.                *)
(*                                                                         *)
(* ViewSpec adds the BrowserSimulation child, whose effects derive the     *)
(* current URL, the browser history, the active store and the displayed    *)
(* items from the activity and the shopping list.  ConnectionSpec          *)
(* and DispatchSpec are the WebSocketService singleton: its connection     *)
(* life cycle with the reconnect timers, and its subscriptions with the    *)
(* dispatch of inbound messages; SendSpec adds its send method.            *)
(* TeardownSpec is the view with its unmount.  ApiSpec is the ApiService   *)
(* adapter (fetch, then handleResponse), and ResultsSpec the renders of    *)
(* the ShoppingResults panel.  PollSpec is the poll loop under fair timers  *)
(* and request completions, with a backend that reaches a terminal task.   *)
(***************************************************************************)
EXTENDS Naturals, Sequences, FiniteSets, TLC

(* ------------------------------ bounds -------------------------------- *)
\* accepted submissions (POST /api/run requests) in one behaviour
MaxSubmits == 2
\* timer ticks of the statusIntervals in one behaviour
MaxTicks == 2
\* WebSocket messages delivered in one behaviour
MaxMessages == 1
\* POST /api/agent/stop requests unanswered at once
MaxStops == 1
\* WebSocket messages delivered in one behaviour of ViewSpec
MaxPushes == 2
\* WebSocket objects WebSocketService creates in one behaviour
MaxSockets == 3
\* callbacks registered with WebSocketService at once
MaxRegistrations == 3
MaxClock == 1
MaxFetches == 2
MaxItems == 3
MaxInFlight == 2

(* ------------------------------ values -------------------------------- *)
\* JavaScript null (useState(null), setBrowserActivity(null)), as a record so
\* that it compares with the activity objects
Null == [type |-> "null"]
\* JavaScript undefined as a task label: a field the JSON body lacks
Undefined == "undefined"
\* JavaScript undefined where an AgentStatusMap is expected; no payload map
\* has the key "undefined"
UndefinedMap == [k \in {"undefined"} |-> "undefined"]
\* the empty object {} of useState({})
EmptyMap == [k \in {} |-> "idle"]

\* texts the textarea may hold
Queries == {"", " ", " a "}
\* ids setInterval hands out
IntervalIds == 1..MaxSubmits

\* LogEntry payloads of agent_log events
LogPayloads == {"log1", "log2"}
\* AgentStatusMap payloads the backend sends (push or GET /api/status)
StatusPayloads == {EmptyMap, [k \in {"planner"} |-> "active"]}
\* non-terminal task labels of the backend
RunningTasks == {"Searching"}
\* ShoppingItem lists the backend sends
ListPayloads == {<<"itemA">>}
\* BrowserActivity payloads
ActivityPayloads == {[type |-> "navigation", url |-> "https://www.bestbuy.com/search?q=a"]}

\* the two terminal sentinels tested on line 86
TerminalTasks == {"Completed", "Stopped by user"}
IsTerminal(task) == task \in TerminalTasks

\* what current_task may be in a status body or a current_task event
BackendTasks == RunningTasks \cup TerminalTasks

\* the JSON bodies GET /api/status answers with: the documented shape, or a
\* body without the two fields (the error body of a non-2xx answer, which
\* line 84 parses like any other)
StatusBodies ==
    [current_task : BackendTasks, agent_status : StatusPayloads]
        \cup {[current_task |-> Undefined, agent_status |-> UndefinedMap]}

\* inbound WebSocket messages after JSON.parse: the five recognised types and
\* one type the handler does not know
Messages ==
    {[type |-> "agent_log", log |-> l] : l \in LogPayloads}
        \cup {[type |-> "agent_status", status |-> s] : s \in StatusPayloads}
        \cup {[type |-> "current_task", task |-> t] : t \in BackendTasks}
        \cup {[type |-> "shopping_list", list |-> l] : l \in ListPayloads}
        \cup {[type |-> "browser_activity", activity |-> a] : a \in ActivityPayloads}
        \cup {[type |-> "ping"]}

\* how POST /api/run may fail, and the message of the error the catch block
\* then sees: fetch rejecting, or the Error thrown on line 78
RunFailures == {"network", "http"}
RunErrorMessage(failure) ==
    IF failure = "network" THEN "Failed to fetch" ELSE "Failed to process query"

(* ----------------------------- String.trim ---------------------------- *)
IsSpace(c) == c = " "

RECURSIVE TrimStart(_)
TrimStart(s) ==
    IF Len(s) > 0 /\ IsSpace(SubSeq(s, 1, 1))
    THEN TrimStart(SubSeq(s, 2, Len(s)))
    ELSE s

RECURSIVE TrimEnd(_)
TrimEnd(s) ==
    IF Len(s) > 0 /\ IsSpace(SubSeq(s, Len(s), Len(s)))
    THEN TrimEnd(SubSeq(s, 1, Len(s) - 1))
    ELSE s

Trim(s) == TrimEnd(TrimStart(s))

(* -------------------------- WebSocketService values ------------------- *)
\* the delay of setTimeout(() => this.connect(url), 3000), in milliseconds
ReconnectDelay == 3000
\* the WebSocket objects new WebSocket(url) returns, numbered as created
SocketIds == 1..MaxSockets
\* amounts of time, in milliseconds, that pass between two events
Elapses == {1500, 3000}
\* no timer pending
NoTimers == [id \in {} |-> 0]

\* the callback functions the application subscribes: "f" only takes the
\* message, "u" calls the unsubscribe function it holds, "t" throws
Callbacks == {"f", "u", "t"}
\* the event types the application subscribes to
EventTypes == {"agent_log", "message"}
\* a property name the object literal {} of onMessageCallbacks inherits
\* from Object.prototype
InheritedKeys == {"constructor"}
\* the unsubscribe functions a callback calls when it is invoked
HeldHandles(cb) == IF cb = "u" THEN {<<"agent_log", "f">>} ELSE {}
\* the callback throws when it is invoked
Throws(cb) == cb = "t"
\* this.onMessageCallbacks = {}
NoCallbacks == [type \in {} |-> <<>>]

\* message.data of an inbound frame: text that is not JSON, or a JSON object
\* with a type or (type undefined) without one
Frames ==
    {[json |-> FALSE]}
        \cup {[json |-> TRUE, type |-> type] :
                  type \in {"agent_log", "message", "constructor", "ping", Undefined}}

(* ------------------------------- state -------------------------------- *)
VARIABLES
    query,            \* useState('')
    isProcessing,     \* useState(false)
    agentLogs,        \* useState([])
    agentStatus,      \* useState({})
    currentTask,      \* useState('Idle')
    shoppingList,     \* useState([])
    browserActivity,  \* useState(null)
    socketConnected,  \* useState(false)
    wsState,          \* readyState of socket.current
    runInFlight,      \* POST /api/run requests awaiting their answer
    runRequests,      \* POST /api/run requests issued so far
    nextInterval,     \* the id the next setInterval returns
    intervals,        \* ids of the intervals that are set and not cleared
    ticks,            \* timer ticks fired so far
    statusInFlight,   \* per interval: GET /api/status awaiting their answer
    listInFlight,     \* per interval: GET /api/shopping/list awaiting theirs
    listFetches,      \* per interval: GET /api/shopping/list issued so far
    stopInFlight,     \* POST /api/agent/stop requests awaiting their answer
    messages,         \* WebSocket messages delivered so far
    activityRef,      \* identity of the object in browserActivity: 0 for
                      \* null, n for the one parsed from the n-th message
    effectDeps,       \* BrowserSimulation: activityRef of the activity the
                      \* effect on [activity] last ran with
    currentUrl,       \* BrowserSimulation: useState('https://shopping-assistant.ai')
    browserHistory,   \* BrowserSimulation: useState([])
    readyState,       \* per WebSocket the service created: its readyState
    nextSocket,       \* the number of the next WebSocket the service creates
    socket,           \* WebSocketService: this.socket (0 is null)
    connected,        \* WebSocketService: this.connected
    promise,          \* per WebSocket: the promise of the connect call that
                      \* created it
    lastConnect,      \* what the latest connect call by the application
                      \* returned
    timers,           \* pending reconnect timers: the WebSocket whose close
                      \* set the timer |-> milliseconds left
    activeStore,      \* BrowserSimulation: the store name of the latest
                      \* navigation, '' before the first
    displayedItems,   \* BrowserSimulation: the items it shows
    resultsDeps,      \* the [queryResults, activeStore] of the latest run
                      \* of the effect that sets displayedItems
    clock,            \* the reading of Date.now(), in milliseconds
    fetches,          \* ApiService: the fetch calls its methods have made
    response,         \* ApiService: the Response of the latest fetch
    outcome,          \* ApiService: how the latest method call has settled
    items,            \* ShoppingResults: its items prop
    groupBy,          \* ShoppingResults: the grouping key
    rendered,         \* ShoppingResults: what its latest render computed
    backendTerminal,  \* the backend has reached a terminal task: from here
                      \* on GET /api/status answers with a terminal
                      \* current_task
    mounted,          \* the ShoppingAssistant component is mounted
    lastSend,         \* the latest send call: what it returned (or that it
                      \* threw) and the WebSocket it transmitted on (0: none)
    onMessageCallbacks, \* WebSocketService: event type |-> array of callbacks
    handles,          \* the unsubscribe functions on() has returned, each
                      \* by the <<type, callback>> it closes over
    invoked           \* the callbacks the latest onmessage run called, in
                      \* the order of the calls

session == <<query, isProcessing, agentLogs, agentStatus, currentTask,
             shoppingList, browserActivity, socketConnected>>
network == <<runInFlight, runRequests, nextInterval, intervals, ticks,
             statusInFlight, listInFlight, listFetches, stopInFlight>>
results == <<activeStore, displayedItems, resultsDeps, clock>>
view == <<activityRef, effectDeps, currentUrl, browserHistory, results>>
connection == <<readyState, nextSocket, socket, connected, promise,
                lastConnect, timers, lastSend>>
subscriptions == <<onMessageCallbacks, handles, invoked>>
service == <<connection, subscriptions>>
assistant == <<session, wsState, network, messages, view, mounted>>
api == <<fetches, response, outcome>>
panel == <<items, groupBy, rendered>>
backend == <<backendTerminal>>
helpers == <<api, panel, backend>>
vars == <<assistant, service, helpers>>

Init ==
    /\ query = ""
    /\ isProcessing = FALSE
    /\ agentLogs = <<>>
    /\ agentStatus = EmptyMap
    /\ currentTask = "Idle"
    /\ shoppingList = <<>>
    /\ browserActivity = Null
    /\ socketConnected = FALSE
    /\ wsState = "connecting"
    /\ runInFlight = 0
    /\ runRequests = 0
    /\ nextInterval = 1
    /\ intervals = {}
    /\ ticks = 0
    /\ statusInFlight = [i \in IntervalIds |-> 0]
    /\ listInFlight = [i \in IntervalIds |-> 0]
    /\ listFetches = [i \in IntervalIds |-> 0]
    /\ stopInFlight = 0
    /\ messages = 0
    /\ activityRef = 0
    /\ effectDeps = 0
    /\ currentUrl = "https://shopping-assistant.ai"
    /\ browserHistory = <<>>
    /\ activeStore = ""
    /\ displayedItems = <<>>
    /\ resultsDeps = <<<<>>, "">>
    /\ clock = 0
    /\ fetches = 0
    /\ response = [state |-> "none"]
    /\ outcome = [kind |-> "none"]
    /\ items = <<>>
    /\ groupBy = "store"
    /\ rendered = [threw |-> FALSE, groupedItems |-> <<>>, lineTotals |-> <<>>,
                   totalCost |-> 0, resultType |-> "Shopping List",
                   buttonLabel |-> "Checkout"]
    /\ backendTerminal = FALSE
    /\ mounted = TRUE
    /\ readyState = [id \in SocketIds |-> "unborn"]
    /\ nextSocket = 1
    /\ socket = 0
    /\ connected = FALSE
    /\ promise = [id \in SocketIds |-> "none"]
    /\ lastConnect = "none"
    /\ timers = NoTimers
    /\ lastSend = [returned |-> "none", on |-> 0]
    /\ onMessageCallbacks = NoCallbacks
    /\ handles = {}
    /\ invoked = <<>>

(* ---------------------------- user input ------------------------------ *)
\* onChange of the textarea, which is disabled while processing
SetQuery(q) ==
    /\ ~isProcessing
    /\ query' = q
    /\ UNCHANGED <<isProcessing, agentLogs, agentStatus, currentTask,
                   shoppingList, browserActivity, socketConnected, wsState,
                   network, messages, view, mounted, service, helpers>>

\* the guard without the trim: if (!query || isProcessing) return;
SubmitRejectedNoTrim(q, processing) == q = "" \/ processing

\* the guard of handleSubmit: if (!query.trim() || isProcessing) return;
SubmitRejected(q, processing) == Trim(q) = "" \/ processing

\* an accepted submission that forgets setShoppingList([])
SubmitResetKeepsList ==
    /\ isProcessing' = TRUE
    /\ agentLogs' = <<>>
    /\ browserActivity' = Null
    /\ currentTask' = "Processing query..."
    /\ UNCHANGED shoppingList

\* the five setters of an accepted submission
SubmitReset ==
    /\ isProcessing' = TRUE
    /\ agentLogs' = <<>>
    /\ shoppingList' = <<>>
    /\ browserActivity' = Null
    /\ currentTask' = "Processing query..."

\* handleSubmit up to its first await: the guard, the resets, and the
\* POST /api/run request, which fetch issues before the function suspends
HandleSubmit ==
    IF SubmitRejected(query, isProcessing)
    THEN UNCHANGED vars
    ELSE /\ runRequests < MaxSubmits
         /\ SubmitReset
         /\ runInFlight' = runInFlight + 1
         /\ runRequests' = runRequests + 1
         /\ activityRef' = 0
         /\ UNCHANGED <<query, agentStatus, socketConnected, wsState,
                        nextInterval, intervals, ticks, statusInFlight,
                        listInFlight, listFetches, stopInFlight, messages,
                        effectDeps, currentUrl, browserHistory, results,
                        mounted, service, helpers>>

\* handleSubmit resumed by a 2xx answer to POST /api/run: setInterval
RunSucceeded ==
    /\ runInFlight > 0
    /\ runInFlight' = runInFlight - 1
    /\ intervals' = intervals \cup {nextInterval}
    /\ nextInterval' = nextInterval + 1
    /\ UNCHANGED <<session, wsState, runRequests, ticks, statusInFlight,
                   listInFlight, listFetches, stopInFlight, messages, view, mounted, service, helpers>>

\* a catch block that forgets setIsProcessing(false)
CatchRunErrorKeepsProcessing(message) ==
    /\ currentTask' = "Error: " \o message
    /\ UNCHANGED isProcessing

\* the catch block of handleSubmit
CatchRunError(message) ==
    /\ isProcessing' = FALSE
    /\ currentTask' = "Error: " \o message

\* handleSubmit resumed by fetch rejecting or by a non-2xx answer
RunFailed(failure) ==
    /\ runInFlight > 0
    /\ runInFlight' = runInFlight - 1
    /\ CatchRunError(RunErrorMessage(failure))
    /\ UNCHANGED <<query, agentLogs, agentStatus, shoppingList,
                   browserActivity, socketConnected, wsState, runRequests,
                   nextInterval, intervals, ticks, statusInFlight,
                   listInFlight, listFetches, stopInFlight, messages, view, mounted, service, helpers>>

(* ----------------------------- poll loop ------------------------------ *)
\* a timer tick of interval i: the callback runs up to await fetch('/api/status')
Tick(i) ==
    /\ i \in intervals
    /\ ticks < MaxTicks
    /\ ticks' = ticks + 1
    /\ statusInFlight' = [statusInFlight EXCEPT ![i] = @ + 1]
    /\ UNCHANGED <<session, wsState, runInFlight, runRequests, nextInterval,
                   intervals, listInFlight, listFetches, stopInFlight, messages, view, mounted, service, helpers>>

\* setAgentStatus(prev => ({...prev, ...payload})): a merge instead
SetAgentStatusMerged(old, payload) ==
    [k \in DOMAIN old \cup DOMAIN payload |->
        IF k \in DOMAIN payload THEN payload[k] ELSE old[k]]

\* setAgentStatus(payload): the new value of the state given the old one
SetAgentStatus(old, payload) == payload

\* a terminal branch that only sets the state: no clearInterval, no fetch
PollTerminalKeepsInterval(i, body) ==
    /\ isProcessing' = FALSE
    /\ currentTask' = body.current_task
    /\ UNCHANGED <<agentStatus, intervals, listInFlight, listFetches>>

\* the terminal branch of the callback, up to await fetch('/api/shopping/list')
PollTerminal(i, body) ==
    /\ intervals' = intervals \ {i}
    /\ isProcessing' = FALSE
    /\ currentTask' = body.current_task
    /\ listInFlight' = [listInFlight EXCEPT ![i] = @ + 1]
    /\ listFetches' = [listFetches EXCEPT ![i] = @ + 1]
    /\ UNCHANGED agentStatus

\* the else branch of the callback
PollRunning(i, body) ==
    /\ currentTask' = body.current_task
    /\ agentStatus' = SetAgentStatus(agentStatus, body.agent_status)
    /\ UNCHANGED <<isProcessing, intervals, listInFlight, listFetches>>

\* the callback of interval i resumed by the parsed body of GET /api/status
StatusResponse(i, body) ==
    /\ statusInFlight[i] > 0
    /\ statusInFlight' = [statusInFlight EXCEPT ![i] = @ - 1]
    /\ IF IsTerminal(body.current_task)
       THEN PollTerminal(i, body)
       ELSE PollRunning(i, body)
    /\ UNCHANGED <<query, agentLogs, shoppingList, browserActivity,
                   socketConnected, wsState, runInFlight, runRequests,
                   nextInterval, ticks, stopInFlight, messages, view, mounted, service, helpers>>

\* fetch('/api/status') rejecting, or its body not being JSON: the promise
\* of the async callback rejects and nothing handles it
StatusFailed(i) ==
    /\ statusInFlight[i] > 0
    /\ statusInFlight' = [statusInFlight EXCEPT ![i] = @ - 1]
    /\ UNCHANGED <<session, wsState, runInFlight, runRequests, nextInterval,
                   intervals, ticks, listInFlight, listFetches, stopInFlight, messages, view, mounted, service, helpers>>

\* the callback resumed by the parsed body of GET /api/shopping/list
ListResponse(i, list) ==
    /\ listInFlight[i] > 0
    /\ listInFlight' = [listInFlight EXCEPT ![i] = @ - 1]
    /\ shoppingList' = list
    /\ UNCHANGED <<query, isProcessing, agentLogs, agentStatus, currentTask,
                   browserActivity, socketConnected, wsState, runInFlight,
                   runRequests, nextInterval, intervals, ticks,
                   statusInFlight, listFetches, stopInFlight, messages, view, mounted, service, helpers>>

\* fetch('/api/shopping/list') rejecting, or its body not being JSON
ListFailed(i) ==
    /\ listInFlight[i] > 0
    /\ listInFlight' = [listInFlight EXCEPT ![i] = @ - 1]
    /\ UNCHANGED <<session, wsState, runInFlight, runRequests, nextInterval,
                   intervals, ticks, statusInFlight, listFetches,
                   stopInFlight, messages, view, mounted, service, helpers>>

(* ---------------------------- stop button ----------------------------- *)
\* onClick of the Stop button, rendered only while processing, up to its await
StopClick ==
    /\ isProcessing
    /\ stopInFlight < MaxStops
    /\ stopInFlight' = stopInFlight + 1
    /\ UNCHANGED <<session, wsState, runInFlight, runRequests, nextInterval,
                   intervals, ticks, statusInFlight, listInFlight,
                   listFetches, messages, view, mounted, service, helpers>>

\* an onClick handler that calls setIsProcessing(false) after its await
StopSettledEndsProcessing ==
    /\ isProcessing' = FALSE
    /\ UNCHANGED <<query, agentLogs, agentStatus, currentTask, shoppingList,
                   browserActivity, socketConnected, intervals>>

\* what the onClick handler does once POST /api/agent/stop has settled
StopSettled == UNCHANGED <<session, intervals>>

\* POST /api/agent/stop answered, or rejected (nothing follows the await)
StopDone ==
    /\ stopInFlight > 0
    /\ stopInFlight' = stopInFlight - 1
    /\ StopSettled
    /\ UNCHANGED <<wsState, runInFlight, runRequests, nextInterval, ticks,
                   statusInFlight, listInFlight, listFetches, messages, view, mounted, service, helpers>>

(* ----------------------------- WebSocket ------------------------------ *)
\* socket.current.onopen
OnOpen ==
    /\ wsState = "connecting"
    /\ wsState' = "open"
    /\ socketConnected' = TRUE
    /\ UNCHANGED <<query, isProcessing, agentLogs, agentStatus, currentTask,
                   shoppingList, browserActivity, network, messages, view, mounted, service, helpers>>

\* socket.current.onclose
OnClose ==
    /\ wsState \in {"connecting", "open"}
    /\ wsState' = "closed"
    /\ socketConnected' = FALSE
    /\ UNCHANGED <<query, isProcessing, agentLogs, agentStatus, currentTask,
                   shoppingList, browserActivity, network, messages, view, mounted, service, helpers>>

\* an agent_log branch that puts the new entry first: [data.log, ...prevLogs]
ApplyAgentLogPrepends(data) ==
    /\ agentLogs' = <<data.log>> \o agentLogs
    /\ UNCHANGED <<isProcessing, agentStatus, currentTask, shoppingList,
                   browserActivity>>

\* data.type === 'agent_log': setAgentLogs(prevLogs => [...prevLogs, data.log])
ApplyAgentLog(data) ==
    /\ agentLogs' = Append(agentLogs, data.log)
    /\ UNCHANGED <<isProcessing, agentStatus, currentTask, shoppingList,
                   browserActivity>>

\* data.type === 'agent_status': setAgentStatus(data.status)
ApplyAgentStatus(data) ==
    /\ agentStatus' = SetAgentStatus(agentStatus, data.status)
    /\ UNCHANGED <<isProcessing, agentLogs, currentTask, shoppingList,
                   browserActivity>>

\* a current_task branch that also ends processing on a terminal sentinel
ApplyCurrentTaskEndsProcessing(data) ==
    /\ currentTask' = data.task
    /\ isProcessing' = (isProcessing /\ ~IsTerminal(data.task))
    /\ UNCHANGED <<agentLogs, agentStatus, shoppingList, browserActivity>>

\* data.type === 'current_task': setCurrentTask(data.task)
ApplyCurrentTask(data) ==
    /\ currentTask' = data.task
    /\ UNCHANGED <<isProcessing, agentLogs, agentStatus, shoppingList,
                   browserActivity>>

\* data.type === 'shopping_list': setShoppingList(data.list)
ApplyShoppingList(data) ==
    /\ shoppingList' = data.list
    /\ UNCHANGED <<isProcessing, agentLogs, agentStatus, currentTask,
                   browserActivity>>

\* a browser_activity branch that also empties the shopping list
ApplyBrowserActivityClearsList(data) ==
    /\ browserActivity' = data.activity
    /\ shoppingList' = <<>>
    /\ UNCHANGED <<isProcessing, agentLogs, agentStatus, currentTask>>

\* data.type === 'browser_activity': setBrowserActivity(data.activity)
ApplyBrowserActivity(data) ==
    /\ browserActivity' = data.activity
    /\ UNCHANGED <<isProcessing, agentLogs, agentStatus, currentTask,
                   shoppingList>>

\* the if / else-if chain of socket.current.onmessage on the parsed message
ApplyMessage(data) ==
    IF data.type = "agent_log" THEN ApplyAgentLog(data)
    ELSE IF data.type = "agent_status" THEN ApplyAgentStatus(data)
    ELSE IF data.type = "current_task" THEN ApplyCurrentTask(data)
    ELSE IF data.type = "shopping_list" THEN ApplyShoppingList(data)
    ELSE IF data.type = "browser_activity" THEN ApplyBrowserActivity(data)
    ELSE UNCHANGED <<isProcessing, agentLogs, agentStatus, currentTask,
                     shoppingList, browserActivity>>

\* socket.current.onmessage: one message delivered on the open socket, the
\* limit-th of the behaviour at most; JSON.parse makes a new object of every
\* message, so a stored activity is an object the view has not seen
OnMessageWithin(data, limit) ==
    /\ wsState = "open"
    /\ messages < limit
    /\ messages' = messages + 1
    /\ ApplyMessage(data)
    /\ activityRef' = IF data.type = "browser_activity"
                      THEN messages + 1
                      ELSE activityRef
    /\ UNCHANGED <<query, socketConnected, wsState, network, effectDeps,
                   currentUrl, browserHistory, results, mounted, service, helpers>>

\* socket.current.onmessage within the message budget of Spec
OnMessage(data) == OnMessageWithin(data, MaxMessages)

(* --------------------- poll loop with its backend --------------------- *)
\* a timer tick of interval i, as Tick(i), with the requests of the loop
\* that are in flight bounded in place of the number of ticks
PollTick(i) ==
    /\ i \in intervals
    /\ statusInFlight[i] < MaxInFlight
    /\ statusInFlight' = [statusInFlight EXCEPT ![i] = @ + 1]
    /\ UNCHANGED <<session, wsState, runInFlight, runRequests, nextInterval,
                   intervals, ticks, listInFlight, listFetches, stopInFlight,
                   messages, view, mounted, service, helpers>>

\* GET /api/status answers the callback of interval i: with any body while
\* the backend is running, with a terminal current_task once it is not
PollAnswer(i) ==
    \E body \in StatusBodies :
        /\ backendTerminal => IsTerminal(body.current_task)
        /\ StatusResponse(i, body)

\* GET /api/status fails, which happens while the backend is running
PollFailure(i) ==
    /\ ~backendTerminal
    /\ StatusFailed(i)

\* the agent of the backend finishes or is stopped
BackendFinishes ==
    /\ ~backendTerminal
    /\ backendTerminal' = TRUE
    /\ UNCHANGED <<assistant, service, api, panel>>

(* ------------------------------ unmount ------------------------------- *)
\* the cleanup of the mount effect, the only teardown the component has:
\* socket.current.close().  No clearInterval is in it, and React ignores the
\* setters of a component that has been unmounted
Unmount ==
    /\ mounted
    /\ mounted' = FALSE
    /\ wsState' = IF wsState \in {"connecting", "open"} THEN "closing" ELSE wsState
    /\ UNCHANGED <<session, network, messages, view, service, helpers>>

\* handleSubmit resumed by a failure after the unmount: the catch block runs
\* and its setters are ignored
RunFailedAfterUnmount ==
    /\ ~mounted
    /\ runInFlight > 0
    /\ runInFlight' = runInFlight - 1
    /\ UNCHANGED <<session, wsState, runRequests, nextInterval, intervals,
                   ticks, statusInFlight, listInFlight, listFetches,
                   stopInFlight, messages, view, mounted, service, helpers>>

\* the callback of interval i resumed by the body of GET /api/status after
\* the unmount: clearInterval and the list fetch of the terminal branch
\* still run, the setters are ignored
StatusResponseAfterUnmount(i, body) ==
    /\ ~mounted
    /\ statusInFlight[i] > 0
    /\ statusInFlight' = [statusInFlight EXCEPT ![i] = @ - 1]
    /\ IF IsTerminal(body.current_task)
       THEN /\ intervals' = intervals \ {i}
            /\ listInFlight' = [listInFlight EXCEPT ![i] = @ + 1]
            /\ listFetches' = [listFetches EXCEPT ![i] = @ + 1]
       ELSE UNCHANGED <<intervals, listInFlight, listFetches>>
    /\ UNCHANGED <<session, wsState, runInFlight, runRequests, nextInterval,
                   ticks, stopInFlight, messages, view, mounted, service, helpers>>

\* GET /api/shopping/list answered after the unmount: setShoppingList is
\* ignored
ListResponseAfterUnmount(i) ==
    /\ ~mounted
    /\ ListFailed(i)

(* -------------------------- WebSocketService -------------------------- *)
\* the guard of connect: if (this.socket && this.connected)
AlreadyConnected == socket # 0 /\ connected

\* the body of connect(url): return at once when connected, otherwise
\* create a WebSocket, store it in this.socket and install the handlers
ConnectBody ==
    IF AlreadyConnected
    THEN UNCHANGED <<readyState, nextSocket, socket, promise>>
    ELSE /\ nextSocket <= MaxSockets
         /\ readyState' = [readyState EXCEPT ![nextSocket] = "connecting"]
         /\ socket' = nextSocket
         /\ promise' = [promise EXCEPT ![nextSocket] = "pending"]
         /\ nextSocket' = nextSocket + 1

\* the application calls connect(url) and keeps what it returns:
\* Promise.resolve(), or the promise made around a new WebSocket
Connect ==
    /\ ConnectBody
    /\ lastConnect' = IF AlreadyConnected THEN "resolved" ELSE "created"
    /\ UNCHANGED <<assistant, helpers, subscriptions, lastSend, connected, timers>>

\* onopen of the id-th WebSocket: this.connected = true; resolve()
SocketOpen(id) ==
    /\ readyState[id] = "connecting"
    /\ readyState' = [readyState EXCEPT ![id] = "open"]
    /\ connected' = TRUE
    /\ promise' = [promise EXCEPT ![id] = IF @ = "pending" THEN "resolved" ELSE @]
    /\ UNCHANGED <<assistant, helpers, subscriptions, lastSend, nextSocket, socket, lastConnect, timers>>

\* onerror of the id-th WebSocket: reject(error)
SocketError(id) ==
    /\ readyState[id] \in {"connecting", "open"}
    /\ promise' = [promise EXCEPT ![id] = IF @ = "pending" THEN "rejected" ELSE @]
    /\ UNCHANGED <<assistant, helpers, subscriptions, lastSend, readyState, nextSocket, socket, connected,
                   lastConnect, timers>>

\* an onclose that reconnects at once: setTimeout(() => this.connect(url), 0)
ScheduleReconnectAtOnce(id) ==
    timers' = [t \in DOMAIN timers \cup {id} |-> IF t = id THEN 0 ELSE timers[t]]

\* setTimeout(() => this.connect(url), 3000) in the onclose of the id-th
\* WebSocket
ScheduleReconnect(id) ==
    timers' = [t \in DOMAIN timers \cup {id} |->
                  IF t = id THEN ReconnectDelay ELSE timers[t]]

\* onclose of the id-th WebSocket (the close event of a connection that
\* failed, dropped, or was closed by either side): this.connected = false
\* and the reconnect timer
SocketClose(id) ==
    /\ readyState[id] \in {"connecting", "open", "closing"}
    /\ readyState' = [readyState EXCEPT ![id] = "closed"]
    /\ connected' = FALSE
    /\ ScheduleReconnect(id)
    /\ UNCHANGED <<assistant, helpers, subscriptions, lastSend, nextSocket, socket, promise, lastConnect>>

\* time passes: every pending timer comes d milliseconds closer
Elapse(d) ==
    /\ \E t \in DOMAIN timers : timers[t] > 0
    /\ timers' = [t \in DOMAIN timers |-> IF timers[t] > d THEN timers[t] - d ELSE 0]
    /\ UNCHANGED <<assistant, helpers, subscriptions, lastSend, readyState, nextSocket, socket, connected,
                   promise, lastConnect>>

\* the timer set by the close of the id-th WebSocket fires, its delay over:
\* this.connect(url), whose promise nothing keeps
TimerFire(id) ==
    /\ id \in DOMAIN timers
    /\ timers[id] = 0
    /\ timers' = [t \in DOMAIN timers \ {id} |-> timers[t]]
    /\ ConnectBody
    /\ UNCHANGED <<assistant, helpers, subscriptions, lastSend, connected, lastConnect>>

\* disconnect(): close the socket, forget it, this.connected = false
Disconnect ==
    /\ IF socket # 0
       THEN /\ readyState' = [readyState EXCEPT ![socket] =
                                 IF @ \in {"connecting", "open"} THEN "closing" ELSE @]
            /\ socket' = 0
            /\ connected' = FALSE
       ELSE UNCHANGED <<readyState, socket, connected>>
    /\ UNCHANGED <<assistant, helpers, subscriptions, lastSend, nextSocket, promise, lastConnect, timers>>

\* send(type, data): false when this.connected is false; otherwise
\* this.socket.send(message) and true.  Reading send of null throws a
\* TypeError; WebSocket.send throws an InvalidStateError on a WebSocket that
\* is still connecting, transmits on an open one, and discards the message
\* on one that is closing or closed
SendResult ==
    IF ~connected THEN [returned |-> "false", on |-> 0]
    ELSE IF socket = 0 THEN [returned |-> "threw", on |-> 0]
    ELSE IF readyState[socket] = "connecting" THEN [returned |-> "threw", on |-> 0]
    ELSE IF readyState[socket] = "open" THEN [returned |-> "true", on |-> socket]
    ELSE [returned |-> "true", on |-> 0]

\* the application calls send(type, data)
Send ==
    /\ lastSend' = SendResult
    /\ UNCHANGED <<assistant, helpers, subscriptions, readyState, nextSocket, socket,
                   connected, promise, lastConnect, timers>>

\* the registrations the registry holds
Registrations(reg) ==
    UNION {{<<type, n>> : n \in 1..Len(reg[type])} : type \in DOMAIN reg}

\* on(type, callback): push the callback and return its unsubscribe function
On(type, callback) ==
    /\ Cardinality(Registrations(onMessageCallbacks)) < MaxRegistrations
    /\ onMessageCallbacks' =
          [t \in DOMAIN onMessageCallbacks \cup {type} |->
              IF t # type THEN onMessageCallbacks[t]
              ELSE IF type \in DOMAIN onMessageCallbacks
                   THEN Append(onMessageCallbacks[type], callback)
                   ELSE <<callback>>]
    /\ handles' = handles \cup {<<type, callback>>}
    /\ UNCHANGED <<assistant, helpers, connection, invoked>>

\* the unsubscribe function of on(h[1], h[2]) applied to a registry:
\* the array of the type filtered by cb => cb !== callback
CallHandle(reg, h) ==
    [reg EXCEPT ![h[1]] = SelectSeq(@, LAMBDA cb : cb # h[2])]

\* the application calls an unsubscribe function it was given
Unsubscribe(h) ==
    /\ h \in handles
    /\ onMessageCallbacks' = CallHandle(onMessageCallbacks, h)
    /\ UNCHANGED <<assistant, helpers, connection, handles, invoked>>

\* a callback calls the unsubscribe functions it holds
RECURSIVE CallHandles(_, _)
CallHandles(reg, hs) ==
    IF hs = {} THEN reg
    ELSE LET h == CHOOSE x \in hs : TRUE
         IN  CallHandles(CallHandle(reg, h), hs \ {h})

\* array.forEach(callback => callback(data)) on the array object it was
\* called on, given the registry and the calls made so far: the registry
\* and the calls after it, and whether a callback threw
RECURSIVE ForEach(_, _, _)
ForEach(array, reg, calls) ==
    IF array = <<>>
    THEN [reg |-> reg, calls |-> calls, threw |-> FALSE]
    ELSE IF Throws(Head(array))
    THEN [reg |-> reg, calls |-> Append(calls, Head(array)), threw |-> TRUE]
    ELSE ForEach(Tail(array),
                 CallHandles(reg, HeldHandles(Head(array)) \cap handles),
                 Append(calls, Head(array)))

\* lines 38-40: the callbacks of the message's type; for an inherited
\* property, which is no array, forEach is not a function
TypeCallbacks(data) ==
    IF data.type \in DOMAIN onMessageCallbacks
    THEN ForEach(onMessageCallbacks[data.type], onMessageCallbacks, <<>>)
    ELSE [reg |-> onMessageCallbacks, calls |-> <<>>,
          threw |-> data.type \in InheritedKeys]

\* lines 43-45, reached when nothing threw: the callbacks under 'message'
GeneralCallbacks(r) ==
    IF ~r.threw /\ "message" \in DOMAIN r.reg
    THEN ForEach(r.reg["message"], r.reg, r.calls)
    ELSE r

\* the try block of onmessage on a frame; what is thrown is caught and logged
ProcessFrame(frame) ==
    IF frame.json
    THEN GeneralCallbacks(TypeCallbacks(frame))
    ELSE [reg |-> onMessageCallbacks, calls |-> <<>>, threw |-> TRUE]

\* onmessage of the id-th WebSocket
SocketMessage(id, frame) ==
    /\ readyState[id] = "open"
    /\ onMessageCallbacks' = ProcessFrame(frame).reg
    /\ invoked' = ProcessFrame(frame).calls
    /\ UNCHANGED <<assistant, helpers, connection, handles>>

\* the application connects once, at start-up
FirstConnect == socket = 0 /\ nextSocket = 1 /\ Connect

(* -------------------------- BrowserSimulation ------------------------- *)
\* BrowserActivity payloads of the behaviours that follow the view: two
\* navigations and an activity of another variant
ViewActivityPayloads ==
    ActivityPayloads
        \cup {[type |-> "navigation", url |-> "https://amazon.com/"],
              [type |-> "click"]}

\* shopping lists of the behaviours that follow the view: four items of one
\* store, and one item of another
ViewListPayloads ==
    {<<[name |-> "tv", store |-> "BestBuy"],
       [name |-> "cable", store |-> "BestBuy"],
       [name |-> "mount", store |-> "BestBuy"],
       [name |-> "remote", store |-> "BestBuy"]>>,
     <<[name |-> "book", store |-> "Amazon"]>>}

\* the inbound messages of those behaviours
ViewMessages ==
    {[type |-> "agent_log", log |-> l] : l \in LogPayloads}
        \cup {[type |-> "browser_activity", activity |-> a] :
                  a \in ViewActivityPayloads}
        \cup {[type |-> "shopping_list", list |-> l] : l \in ViewListPayloads}
        \cup {[type |-> "ping"]}

\* Date.now() advances by a millisecond
ClockTick ==
    /\ clock < MaxClock
    /\ clock' = clock + 1
    /\ UNCHANGED <<session, wsState, network, messages, activityRef,
                   effectDeps, currentUrl, browserHistory, activeStore,
                   displayedItems, resultsDeps, mounted, service, helpers>>

\* the BrowserHistoryEntry of a navigation: id: Date.now(), url, and
\* timestamp: new Date() (its title is not part of this state)
HistoryEntry(url, now) == [id |-> now, url |-> url, timestamp |-> now]

\* storeMatch[1] of url.match(/https?:\/\/(?:www\.)?([^\.]+)\./), for the
\* urls of ViewActivityPayloads
StoreMatch(url) ==
    CASE url = "https://www.bestbuy.com/search?q=a" -> "bestbuy"
      [] url = "https://amazon.com/" -> "amazon"

\* capitalizeFirstLetter, for the values of StoreMatch
CapitalizeFirstLetter(string) ==
    CASE string = "bestbuy" -> "Bestbuy"
      [] string = "amazon" -> "Amazon"

\* String.prototype.toLowerCase, for the store names of the model
ToLowerCase(string) ==
    CASE string = "BestBuy" -> "bestbuy"
      [] string = "Bestbuy" -> "bestbuy"
      [] string = "Amazon" -> "amazon"
      [] string = "" -> ""
      [] string = "Laptop" -> "laptop"
      [] string = "hotel" -> "hotel"
      [] string = "ETF" -> "etf"
      [] string = "food" -> "food"

\* String.prototype.includes on the values of ToLowerCase: every string
\* includes '', and no other value is a proper substring of another
Includes(string, part) == part = "" \/ string = part

\* Array.prototype.slice(0, n)
Slice(array, n) == SubSeq(array, 1, IF Len(array) < n THEN Len(array) ELSE n)

\* an effect that starts a new history when the activity is null
ActivityEffectClearsOnNull(activity) ==
    IF activity = Null
    THEN /\ browserHistory' = <<>>
         /\ UNCHANGED <<currentUrl, activeStore>>
    ELSE IF activity.type = "navigation"
    THEN /\ currentUrl' = activity.url
         /\ browserHistory' = Append(browserHistory, HistoryEntry(activity.url, clock))
         /\ activeStore' = CapitalizeFirstLetter(StoreMatch(activity.url))
    ELSE UNCHANGED <<currentUrl, browserHistory, activeStore>>

\* the body of the effect on [activity]: setCurrentUrl, setBrowserHistory
\* and setActiveStore
ActivityEffect(activity) ==
    IF activity # Null /\ activity.type = "navigation"
    THEN /\ currentUrl' = activity.url
         /\ browserHistory' = Append(browserHistory, HistoryEntry(activity.url, clock))
         /\ activeStore' = CapitalizeFirstLetter(StoreMatch(activity.url))
    ELSE UNCHANGED <<currentUrl, browserHistory, activeStore>>

\* the items of queryResults whose store contains the active store
StoreItems(queryResults, store) ==
    SelectSeq(queryResults,
              LAMBDA item : /\ item.store # ""
                            /\ Includes(ToLowerCase(item.store), ToLowerCase(store)))

\* the body of the effect on [queryResults, activeStore]: setDisplayedItems
ResultsEffect(queryResults, store) ==
    IF Len(queryResults) > 0
    THEN IF store # ""
         THEN displayedItems' =
                  IF Len(StoreItems(queryResults, store)) > 0
                  THEN StoreItems(queryResults, store)
                  ELSE Slice(queryResults, 3)
         ELSE displayedItems' = Slice(queryResults, 3)
    ELSE UNCHANGED displayedItems

\* a render of BrowserSimulation commits with props or state that an effect
\* has not run with: the effect on [activity] runs when the activity is not
\* the object of its last run, the effect on [queryResults, activeStore]
\* when one of the two has changed (a run with equal values sets the same
\* displayedItems again, so the dependencies are compared by value here);
\* both read the state of this render
Render ==
    /\ activityRef # effectDeps \/ resultsDeps # <<shoppingList, activeStore>>
    /\ effectDeps' = activityRef
    /\ IF activityRef # effectDeps
       THEN ActivityEffect(browserActivity)
       ELSE UNCHANGED <<currentUrl, browserHistory, activeStore>>
    /\ resultsDeps' = <<shoppingList, activeStore>>
    /\ IF resultsDeps # <<shoppingList, activeStore>>
       THEN ResultsEffect(shoppingList, activeStore)
       ELSE UNCHANGED displayedItems
    /\ UNCHANGED <<session, wsState, network, messages, activityRef, clock,
                   mounted, service, helpers>>

(* ----------------------------- ApiService ----------------------------- *)
\* JSON strings and numbers
Str(s) == [string |-> s]
Num(n) == [number |-> n]

\* the HTTP status codes of the responses
Statuses == {200, 204, 404, 500}

\* String(number), for the numbers of the model
NumberToString(n) ==
    CASE n = 0 -> "0"
      [] n = 42 -> "42"
      [] n = 200 -> "200"
      [] n = 204 -> "204"
      [] n = 404 -> "404"
      [] n = 500 -> "500"

\* String(value) of a JSON string or number
StringOf(value) ==
    IF "string" \in DOMAIN value THEN value.string
    ELSE NumberToString(value.number)

\* value is truthy: not '' and not 0
Truthy(value) ==
    IF "string" \in DOMAIN value THEN value.string # ""
    ELSE value.number # 0

\* the bodies of the responses: not JSON, the JSON null, and objects with
\* and without a message field
Bodies ==
    {[parses |-> FALSE], [parses |-> TRUE, value |-> Null]}
        \cup {[parses |-> TRUE, value |-> [message |-> m]] :
                  m \in {Str("bad"), Str(""), Num(42), Num(0)}}
        \cup {[parses |-> TRUE, value |-> [code |-> Num(42)]]}

\* the Responses fetch resolves with; response.ok is status in 200..299
Responses ==
    {[state |-> "received", ok |-> status \in 200..299, status |-> status,
      statusText |-> text, body |-> body] :
         status \in Statuses, text \in {"", "Error"}, body \in Bodies}

\* await response.json().catch(() => null)
ErrorData(r) == IF r.body.parses THEN r.body.value ELSE Null

\* errorData?.message is there and truthy
HasMessage(errorData) ==
    /\ errorData # Null
    /\ "message" \in DOMAIN errorData
    /\ Truthy(errorData.message)

\* a message that is always synthesized from the status
ErrorMessageSynthesized(errorData, r) ==
    "API error: " \o NumberToString(r.status) \o " " \o r.statusText

\* errorData?.message || `API error: ${response.status} ${response.statusText}`,
\* as new Error(...) stores it: converted to a string
ErrorMessage(errorData, r) ==
    IF HasMessage(errorData)
    THEN StringOf(errorData.message)
    ELSE "API error: " \o NumberToString(r.status) \o " " \o r.statusText

\* how handleResponse(r) settles: it returns the parsed body of an ok
\* response (response.json() rejects with a SyntaxError when the body is
\* not JSON), and throws an Error with status and data otherwise
HandleResponseResult(r) ==
    IF ~r.ok
    THEN [kind |-> "threw",
          error |-> [name |-> "Error",
                     message |-> ErrorMessage(ErrorData(r), r),
                     status |-> r.status,
                     data |-> ErrorData(r)]]
    ELSE IF r.body.parses
    THEN [kind |-> "returned", value |-> r.body.value]
    ELSE [kind |-> "threw", error |-> [name |-> "SyntaxError"]]

\* a method of ApiService is called: up to its await fetch(...)
ApiCall ==
    /\ response.state # "inflight"
    /\ fetches < MaxFetches
    /\ fetches' = fetches + 1
    /\ response' = [state |-> "inflight"]
    /\ outcome' = [kind |-> "pending"]
    /\ UNCHANGED <<assistant, service, backend, panel>>

\* fetch resolves with the Response r
FetchResolved(r) ==
    /\ response.state = "inflight"
    /\ response' = r
    /\ UNCHANGED <<assistant, service, backend, panel, fetches, outcome>>

\* fetch rejects: the method rejects with the network error
FetchRejected ==
    /\ response.state = "inflight"
    /\ response' = [state |-> "failed"]
    /\ outcome' = [kind |-> "threw", error |-> [name |-> "TypeError"]]
    /\ UNCHANGED <<assistant, service, backend, panel, fetches>>

\* return this.handleResponse(response)
HandleResponse ==
    /\ response.state = "received"
    /\ outcome.kind = "pending"
    /\ outcome' = HandleResponseResult(response)
    /\ UNCHANGED <<assistant, service, backend, panel, fetches, response>>

(* --------------------------- ShoppingResults -------------------------- *)
\* the items of the lists: a field that is absent is not in the record
ResultItems ==
    {[name |-> "laptop", store |-> "Amazon", category |-> "Laptop",
      price |-> 3, quantity |-> 2],
     [name |-> "room", store |-> "Amazon", category |-> "hotel", price |-> 5],
     [name |-> "fund", category |-> "ETF", price |-> 3, quantity |-> 0],
     [name |-> "milk", store |-> "Walmart", price |-> 5, quantity |-> 2],
     [name |-> "kit", store |-> "constructor", category |-> "food", price |-> 3]}

\* the lists the parent passes as items
ItemLists == UNION {[1..n -> ResultItems] : n \in 0..MaxItems}

\* the options of the Group by select
GroupKeys == {"store", "category"}

\* item[groupBy] || 'Other'
GroupKey(item, key) ==
    IF key \in DOMAIN item /\ item[key] # "" THEN item[key] ELSE "Other"

\* one step of the reduce over groups = {}: groups[key] is the group when the
\* object has the key, an inherited member of Object.prototype when key
\* names one (truthy, so no group is created, and its push is not a
\* function: TypeError), and undefined otherwise (a group is created)
RECURSIVE GroupItems(_, _, _)
GroupItems(list, key, groups) ==
    IF list = <<>> THEN [threw |-> FALSE, groups |-> groups]
    ELSE LET item == Head(list)
             k == GroupKey(item, key)
         IN  IF k \in DOMAIN groups
             THEN GroupItems(Tail(list), key,
                             [groups EXCEPT ![k] = Append(@, item)])
             ELSE IF k \in InheritedKeys
             THEN [threw |-> TRUE]
             ELSE GroupItems(Tail(list), key, groups @@ (k :> <<item>>))

\* item.price * (item.quantity || 1)
LineTotal(item) ==
    item.price * (IF "quantity" \in DOMAIN item /\ item.quantity # 0
                  THEN item.quantity
                  ELSE 1)

\* items.reduce((sum, item) => sum + LineTotal(item), 0)
RECURSIVE TotalCost(_)
TotalCost(list) ==
    IF list = <<>> THEN 0 ELSE LineTotal(Head(list)) + TotalCost(Tail(list))

\* items.map(item => item.category?.toLowerCase() || ''), as a set
ItemCategories(list) ==
    {IF "category" \in DOMAIN list[n] THEN ToLowerCase(list[n].category) ELSE "" :
        n \in 1..Len(list)}

TechKeywords == {"laptop", "smartphone", "computer", "tablet", "electronics"}
TravelKeywords == {"hotel", "flight", "resort", "airbnb"}
FinanceKeywords == {"etf", "stock", "fund", "bond", "crypto"}

HasTechItems(list) == ItemCategories(list) \cap TechKeywords # {}
HasTravelItems(list) == ItemCategories(list) \cap TravelKeywords # {}
HasFinanceItems(list) == ItemCategories(list) \cap FinanceKeywords # {}

\* a label that looks at travel before tech
ResultTypeTravelFirst(list) ==
    IF HasTravelItems(list) THEN "Travel Options"
    ELSE IF HasTechItems(list) THEN "Tech Products"
    ELSE IF HasFinanceItems(list) THEN "Investment Options"
    ELSE "Shopping List"

\* resultType
ResultType(list) ==
    IF HasTechItems(list) THEN "Tech Products"
    ELSE IF HasTravelItems(list) THEN "Travel Options"
    ELSE IF HasFinanceItems(list) THEN "Investment Options"
    ELSE "Shopping List"

\* the label of the second button
ButtonLabel(list) ==
    IF HasTechItems(list) THEN "Purchase Selected"
    ELSE IF HasTravelItems(list) THEN "Book Selected"
    ELSE IF HasFinanceItems(list) THEN "Invest Now"
    ELSE "Checkout"

\* the body of the component, evaluated with items = list and groupBy = key:
\* a throw in the grouping ends the render
ShoppingResults(list, key) ==
    LET grouped == GroupItems(list, key, <<>>)
    IN  IF grouped.threw THEN [threw |-> TRUE]
        ELSE [threw |-> FALSE,
              groupedItems |-> grouped.groups,
              lineTotals |-> [g \in DOMAIN grouped.groups |->
                                 [n \in 1..Len(grouped.groups[g]) |->
                                     LineTotal(grouped.groups[g][n])]],
              totalCost |-> TotalCost(list),
              resultType |-> ResultType(list),
              buttonLabel |-> ButtonLabel(list)]

\* the parent renders ShoppingResults with a list
RenderItems(list) ==
    /\ items' = list
    /\ rendered' = ShoppingResults(list, groupBy)
    /\ UNCHANGED <<assistant, service, backend, api, groupBy>>

\* onChange of the Group by select: setGroupBy and the render that follows
SetGroupBy(key) ==
    /\ groupBy' = key
    /\ rendered' = ShoppingResults(items, key)
    /\ UNCHANGED <<assistant, service, backend, api, items>>

(* --------------------------- specification ---------------------------- *)
Next ==
    \/ \E q \in Queries : SetQuery(q)
    \/ HandleSubmit
    \/ RunSucceeded
    \/ \E failure \in RunFailures : RunFailed(failure)
    \/ \E i \in IntervalIds : Tick(i)
    \/ \E i \in IntervalIds : \E body \in StatusBodies : StatusResponse(i, body)
    \/ \E i \in IntervalIds : StatusFailed(i)
    \/ \E i \in IntervalIds : \E list \in ListPayloads : ListResponse(i, list)
    \/ \E i \in IntervalIds : ListFailed(i)
    \/ StopClick
    \/ StopDone
    \/ OnOpen
    \/ OnClose
    \/ \E data \in Messages : OnMessage(data)

Spec == Init /\ [][Next]_vars

\* the ShoppingAssistant view with its BrowserSimulation child and the push
\* channel, the requests of the poll loop left out: a submission ends by the
\* failure of POST /api/run
ViewNext ==
    \/ \E q \in Queries : SetQuery(q)
    \/ HandleSubmit
    \/ \E failure \in RunFailures : RunFailed(failure)
    \/ OnOpen
    \/ \E data \in ViewMessages : OnMessageWithin(data, MaxPushes)
    \/ Render
    \/ ClockTick

ViewSpec == Init /\ [][ViewNext]_vars

\* the connection life cycle of WebSocketService: the calls of the
\* application, the events of the WebSockets it created, and its timers
ConnectionNext ==
    \/ Connect
    \/ Disconnect
    \/ \E id \in SocketIds : SocketOpen(id)
    \/ \E id \in SocketIds : SocketError(id)
    \/ \E id \in SocketIds : SocketClose(id)
    \/ \E d \in Elapses : Elapse(d)
    \/ \E id \in SocketIds : TimerFire(id)

ConnectionSpec == Init /\ [][ConnectionNext]_vars

\* the component with its unmount: the user and the WebSocket act on a
\* mounted component only, timers and fetches outlive it
TeardownNext ==
    \/ mounted /\ \E q \in Queries : SetQuery(q)
    \/ mounted /\ HandleSubmit
    \/ RunSucceeded
    \/ mounted /\ \E failure \in RunFailures : RunFailed(failure)
    \/ RunFailedAfterUnmount
    \/ \E i \in IntervalIds : Tick(i)
    \/ mounted /\ \E i \in IntervalIds, body \in StatusBodies : StatusResponse(i, body)
    \/ \E i \in IntervalIds, body \in StatusBodies : StatusResponseAfterUnmount(i, body)
    \/ \E i \in IntervalIds : StatusFailed(i)
    \/ mounted /\ \E i \in IntervalIds, list \in ListPayloads : ListResponse(i, list)
    \/ \E i \in IntervalIds : ListResponseAfterUnmount(i)
    \/ mounted /\ OnOpen
    \/ Unmount

TeardownSpec == Init /\ [][TeardownNext]_vars

\* the calls of the ApiService methods and their responses
ApiNext ==
    \/ ApiCall
    \/ \E r \in Responses : FetchResolved(r)
    \/ FetchRejected
    \/ HandleResponse

ApiSpec == Init /\ [][ApiNext]_vars

\* the renders of ShoppingResults
ResultsNext ==
    \/ \E list \in ItemLists : RenderItems(list)
    \/ \E key \in GroupKeys : SetGroupBy(key)

ResultsSpec == Init /\ [][ResultsNext]_vars

\* the poll loops with a backend that finishes; the timer of an active
\* interval keeps firing and every status request is answered in the end
\* (the list requests of the terminal branch stay in flight here)
PollNext ==
    \/ \E q \in Queries : SetQuery(q)
    \/ HandleSubmit
    \/ RunSucceeded
    \/ \E failure \in RunFailures : RunFailed(failure)
    \/ \E i \in IntervalIds : PollTick(i)
    \/ \E i \in IntervalIds : PollAnswer(i)
    \/ \E i \in IntervalIds : PollFailure(i)
    \/ BackendFinishes

PollFairness ==
    \A i \in IntervalIds :
        /\ WF_vars(PollTick(i))
        /\ WF_vars(PollAnswer(i) \/ PollFailure(i))

PollSpec == Init /\ [][PollNext]_vars /\ PollFairness

\* the connection life cycle with the send calls of the application
SendNext ==
    \/ ConnectionNext
    \/ Send

SendSpec == Init /\ [][SendNext]_vars

\* the subscriptions of WebSocketService and the dispatch of inbound
\* messages, on the connection of a single connect call
DispatchNext ==
    \/ FirstConnect
    \/ \E id \in SocketIds : SocketOpen(id)
    \/ \E type \in EventTypes : \E callback \in Callbacks : On(type, callback)
    \/ \E h \in EventTypes \X Callbacks : Unsubscribe(h)
    \/ \E id \in SocketIds : \E frame \in Frames : SocketMessage(id, frame)

DispatchSpec == Init /\ [][DispatchNext]_vars

(* ------------------------------ claims -------------------------------- *)
\* the query text is empty or consists of whitespace only
IsBlank(q) == \A n \in 1..Len(q) : SubSeq(q, n, n) = " "

\* the task label is an error string
IsErrorTask(task) == Len(task) >= 7 /\ SubSeq(task, 1, 7) = "Error: "

\* C1: a handleSubmit run with a blank query, or while processing, changes
\* no Session field, issues no POST /api/run and starts no poll loop.
C1_RejectedSubmitIsNoOp ==
    [][(HandleSubmit /\ (IsBlank(query) \/ isProcessing))
          => UNCHANGED <<session, network>>]_vars

\* a whitespace-only query is in the textarea after a first query, while
\* there is a result to lose and another submission could still be accepted
C1_Witness ==
    /\ query = " "
    /\ ~isProcessing
    /\ shoppingList # <<>>
    /\ runRequests = 1

\* C2: the step that accepts a submission leaves processing = true, the log
\* and the shopping list empty, the browser activity null and CurrentTask =
\* "Processing query...", with the POST /api/run request still unanswered.
C2_AcceptedSubmitResets ==
    [][(HandleSubmit /\ ~IsBlank(query) /\ ~isProcessing)
          => /\ isProcessing'
             /\ agentLogs' = <<>>
             /\ shoppingList' = <<>>
             /\ browserActivity' = Null
             /\ currentTask' = "Processing query..."
             /\ runInFlight' = runInFlight + 1]_vars

\* the second submission has just been accepted: its request is the only one
\* unanswered, the first query's list was fetched, and everything is reset
C2_Witness ==
    /\ runRequests = 2
    /\ runInFlight = 1
    /\ listFetches[1] = 1
    /\ listInFlight[1] = 0
    /\ isProcessing
    /\ agentLogs = <<>>
    /\ shoppingList = <<>>
    /\ browserActivity = Null
    /\ currentTask = "Processing query..."

\* C3: when POST /api/run fails, processing becomes false, CurrentTask becomes
\* an "Error: ..." string, no interval is set and no request is issued again.
C3_RunFailureStops ==
    [][\A failure \in RunFailures :
          RunFailed(failure)
              => /\ ~isProcessing'
                 /\ IsErrorTask(currentTask')
                 /\ intervals' = intervals
                 /\ nextInterval' = nextInterval
                 /\ runRequests' = runRequests
                 /\ runInFlight' = runInFlight - 1
                 /\ statusInFlight' = statusInFlight]_vars

\* the only submission failed: an error label, not processing, no poll loop
C3_Witness ==
    /\ runRequests = 1
    /\ runInFlight = 0
    /\ IsErrorTask(currentTask)
    /\ ~isProcessing
    /\ intervals = {}
    /\ nextInterval = 1

\* C4: every poll loop is stopped once its callback has seen a terminal
\* CurrentTask, and its callbacks fetch /api/shopping/list exactly once.
C4_PollStopsAndListFetchedOnce ==
    \A i \in IntervalIds :
        /\ listFetches[i] > 0 => i \notin intervals
        /\ listFetches[i] <= 1

\* a status response carrying a terminal CurrentTask is applied
TerminalObserved(i) ==
    \E body \in StatusBodies :
        IsTerminal(body.current_task) /\ StatusResponse(i, body)

\* C5: processing turns from true to false only in a step that applies a
\* terminal status response or handles the failure of POST /api/run; no
\* WebSocket message changes it.
C5_ProcessingHeldUntilTerminal ==
    [][/\ (isProcessing /\ ~isProcessing')
            => \/ \E i \in IntervalIds : TerminalObserved(i)
               \/ \E failure \in RunFailures : RunFailed(failure)
       /\ \A data \in Messages :
            OnMessage(data) => isProcessing' = isProcessing]_vars

\* a terminal current_task event has arrived (no poll has run yet) and the
\* query is still processing
C5_Witness ==
    /\ isProcessing
    /\ currentTask \in TerminalTasks
    /\ messages = 1
    /\ ticks = 0

\* C6: issuing POST /api/agent/stop and its settling change no Session field
\* and set or clear no interval; an interval is cleared only in a step that
\* applies a terminal status response of its own callback, and once no
\* POST /api/run is unanswered, processing turns false only in a step that
\* applies a terminal status response.
C6_StopOnlyIssuesRequest ==
    [][/\ (StopClick \/ StopDone)
            => UNCHANGED <<session, intervals, nextInterval>>
       /\ \A i \in IntervalIds :
            (i \in intervals /\ i \notin intervals') => TerminalObserved(i)
       /\ (isProcessing /\ ~isProcessing' /\ runInFlight = 0)
            => \E i \in IntervalIds : TerminalObserved(i)]_vars

\* a stop request is unanswered while the query is still processing, its
\* poll loop still runs and a status request of it is in flight
C6_Witness ==
    /\ stopInFlight = 1
    /\ isProcessing
    /\ intervals = {1}
    /\ statusInFlight[1] = 1

\* C7: every applied status response sets CurrentTask to the fetched
\* current_task and AgentStatusMap to the fetched agent_status.
C7_PollAppliesBothFields ==
    [][\A i \in IntervalIds : \A body \in StatusBodies :
          StatusResponse(i, body)
              => /\ currentTask' = body.current_task
                 /\ agentStatus' = body.agent_status]_vars

\* C8: a failed request of an in-flight query (run, status poll or final list
\* fetch) leaves processing = false and an error string in CurrentTask.
C8_TransportFailureSurfaced ==
    [][(\/ \E failure \in RunFailures : RunFailed(failure)
        \/ \E i \in IntervalIds : StatusFailed(i)
        \/ \E i \in IntervalIds : ListFailed(i))
          => /\ ~isProcessing'
             /\ IsErrorTask(currentTask')]_vars

\* C9: a step that updates the AgentStatusMap (an agent_status event, or a
\* status response on the non-terminal branch) leaves it equal to the
\* payload, with exactly the payload's keys.  Every status response changes
\* statusInFlight and every message changes messages, so each quantifier is
\* evaluated only on the steps that can be one of its handlers.
C9_StatusReplacedWholesale ==
    [][/\ statusInFlight' # statusInFlight =>
            \A i \in IntervalIds : \A body \in StatusBodies :
                (~IsTerminal(body.current_task) /\ StatusResponse(i, body))
                    => /\ agentStatus' = body.agent_status
                       /\ DOMAIN agentStatus' = DOMAIN body.agent_status
       /\ messages' # messages =>
            \A data \in Messages :
                (data.type = "agent_status" /\ OnMessage(data))
                    => /\ agentStatus' = data.status
                       /\ DOMAIN agentStatus' = DOMAIN data.status]_vars

\* with no WebSocket message delivered, a status response on the
\* non-terminal branch has replaced the initial empty map
C9_Witness ==
    /\ messages = 0
    /\ isProcessing
    /\ currentTask = "Searching"
    /\ DOMAIN agentStatus = {"planner"}

\* C10: a WebSocket message changes at most the Session field of its type;
\* it never changes the query, the processing flag, the connected flag or
\* any request or interval, and a message of another type changes nothing.
C10_PushChangesOnlyOwnField ==
    [][\A data \in Messages :
          OnMessage(data)
              => /\ UNCHANGED <<query, isProcessing, socketConnected, network>>
                 /\ data.type # "agent_log" => UNCHANGED agentLogs
                 /\ data.type # "agent_status" => UNCHANGED agentStatus
                 /\ data.type # "current_task" => UNCHANGED currentTask
                 /\ data.type # "shopping_list" => UNCHANGED shoppingList
                 /\ data.type # "browser_activity" => UNCHANGED browserActivity]_vars

\* a browser_activity event has been applied after a query's final list
C10_Witness ==
    /\ messages = 1
    /\ browserActivity # Null
    /\ shoppingList # <<>>
    /\ currentTask \in TerminalTasks

\* s is an initial segment of t
IsPrefix(s, t) == Len(s) <= Len(t) /\ SubSeq(t, 1, Len(s)) = s

\* the step accepts a submission
AcceptedSubmit == HandleSubmit /\ ~IsBlank(query) /\ ~isProcessing

\* C11: every agent_log event adds exactly its entry at the end of the log;
\* a step that is not an accepted submission leaves the log of the state
\* before it as a prefix of the log after it, and a step that shortens the
\* log is an accepted submission, which empties it.
C11_LogAppendOnly ==
    [][/\ \A data \in ViewMessages :
            (data.type = "agent_log" /\ OnMessageWithin(data, MaxPushes))
                => agentLogs' = Append(agentLogs, data.log)
       /\ \/ IsPrefix(agentLogs, agentLogs') /\ Len(agentLogs') <= Len(agentLogs) + 1
          \/ AcceptedSubmit /\ agentLogs' = <<>>
       /\ agentLogs' # agentLogs
            => \/ AcceptedSubmit
               \/ \E data \in ViewMessages :
                    data.type = "agent_log" /\ OnMessageWithin(data, MaxPushes)]_vars

\* two different entries have arrived during the second query, in this order
C11_Witness ==
    /\ agentLogs = <<"log1", "log2">>
    /\ runRequests = 2
    /\ isProcessing

\* C12: no step removes or reorders entries of the browser history: the
\* history before a step is a prefix of the history after it, and a
\* handleSubmit step, accepted or not, leaves the history unchanged.
C12_HistoryAppendOnly ==
    [][/\ IsPrefix(browserHistory, browserHistory')
       /\ HandleSubmit => browserHistory' = browserHistory]_vars

\* a query was accepted after a navigation had reached the history, and the
\* view has rendered with the null activity since
C12_Witness ==
    /\ browserHistory # <<>>
    /\ browserActivity = Null
    /\ activityRef = 0
    /\ effectDeps = 0
    /\ isProcessing

\* the activity is of variant navigation
IsNavigation(activity) == activity # Null /\ activity.type = "navigation"

\* the step is a render in which the effect on [activity] runs
ActivityEffectRuns == Render /\ activityRef # effectDeps

\* C13: every navigation activity the Session receives sets current URL to
\* its url and appends exactly one history entry for it: the effect run with
\* a navigation does both, a received navigation is not replaced before the
\* effect has run with it, and an effect run with a null or non-navigation
\* activity changes neither.
C13_EveryNavigationRecorded ==
    [][/\ (ActivityEffectRuns /\ IsNavigation(browserActivity))
            => /\ currentUrl' = browserActivity.url
               /\ Len(browserHistory') = Len(browserHistory) + 1
               /\ browserHistory'[Len(browserHistory')].url = browserActivity.url
       /\ (ActivityEffectRuns /\ ~IsNavigation(browserActivity))
            => UNCHANGED <<currentUrl, browserHistory>>
       /\ (IsNavigation(browserActivity) /\ activityRef # effectDeps)
            => activityRef' = activityRef]_vars

\* C14: a connect call made while the socket of the service is open returns
\* a resolved promise, creates no WebSocket, and leaves the socket, the
\* connected flag, the promises and the timers unchanged.
C14_ConnectIdempotentWhileOpen ==
    [][(Connect /\ socket # 0 /\ readyState[socket] = "open")
          => /\ lastConnect' = "resolved"
             /\ UNCHANGED <<readyState, nextSocket, socket, connected,
                            promise, timers>>]_vars

\* the WebSockets of the service that are open or being opened
LiveSockets == {id \in SocketIds : readyState[id] \in {"connecting", "open"}}

\* C15: at most one WebSocket created by the service is open or being
\* opened at any time.
C15_AtMostOneConnection == Cardinality(LiveSockets) <= 1

\* C16: every close event leaves the service disconnected and sets exactly
\* one reconnect timer with the full delay, whatever the number of earlier
\* attempts; a timer is set only by a close event, comes closer only as time
\* passes, and fires only with its delay over, into a connect call; an error
\* event rejects the pending promise of its WebSocket and changes neither
\* the connected flag nor the timers.
C16_ReconnectDrivenByClose ==
    [][/\ \A id \in SocketIds :
            SocketClose(id)
                => /\ ~connected'
                   /\ id \notin DOMAIN timers
                   /\ DOMAIN timers' = DOMAIN timers \cup {id}
                   /\ timers'[id] = ReconnectDelay
                   /\ \A t \in DOMAIN timers : timers'[t] = timers[t]
       /\ (\E t \in DOMAIN timers' : t \notin DOMAIN timers)
            => \E id \in SocketIds : SocketClose(id)
       /\ \A t \in DOMAIN timers \cap DOMAIN timers' :
            timers'[t] # timers[t]
                => \E d \in Elapses : Elapse(d) /\ timers'[t] + d >= timers[t]
       /\ \A id \in SocketIds :
            TimerFire(id)
                => /\ timers[id] = 0
                   /\ id \notin DOMAIN timers'
                   /\ \/ AlreadyConnected /\ UNCHANGED <<socket, readyState>>
                      \/ socket' = nextSocket /\ readyState'[nextSocket] = "connecting"
       /\ \A id \in SocketIds :
            SocketError(id)
                => /\ UNCHANGED <<connected, timers, readyState, socket>>
                   /\ promise[id] = "pending" => promise'[id] = "rejected"]_vars

\* the first connection failed with an error and a close, the timer of its
\* close fired into a second one, and the close of that one has just set
\* the next timer
C16_Witness ==
    /\ promise[1] = "rejected"
    /\ readyState[1] = "closed"
    /\ 1 \notin DOMAIN timers
    /\ socket = 2
    /\ readyState[2] = "closed"
    /\ 2 \in DOMAIN timers
    /\ timers[2] = ReconnectDelay
    /\ ~connected
    /\ nextSocket = 3

\* the callbacks registered under a type, in registration order
Subscribers(type) ==
    IF type \in DOMAIN onMessageCallbacks THEN onMessageCallbacks[type] ELSE <<>>

\* the frame is a JSON object with a type field
WellFormed(frame) == frame.json /\ frame.type # Undefined

\* C17: an onmessage run on a well-formed message of type T calls the
\* callbacks registered for T in registration order and then the callbacks
\* registered under "message" in registration order, and no others.
C17_TypeThenWildcard ==
    [][\A id \in SocketIds : \A frame \in Frames :
          (WellFormed(frame) /\ SocketMessage(id, frame))
              => invoked' = Subscribers(frame.type) \o Subscribers("message")]_vars

\* C18: when a callback called for a message of type T calls the unsubscribe
\* function of a callback registered for T, the removed callback is called
\* no more among the callbacks of T for this message, and it is not
\* registered for T after the run.
C18_UnsubscribeDuringDispatch ==
    [][\A id \in SocketIds : \A frame \in Frames :
          (WellFormed(frame) /\ SocketMessage(id, frame))
              => \A n \in 1..Len(invoked') :
                    \A h \in HeldHandles(invoked'[n]) \cap handles :
                        (h[1] = frame.type /\ n <= Len(Subscribers(frame.type)))
                            => /\ \A k \in (n + 1)..Len(Subscribers(frame.type)) :
                                    k <= Len(invoked') => invoked'[k] # h[2]
                               /\ \A k \in 1..Len(onMessageCallbacks'[h[1]]) :
                                    onMessageCallbacks'[h[1]][k] # h[2]]_vars

\* t is s with at most one of its elements left out
DropsAtMostOne(s, t) ==
    \/ t = s
    \/ \E n \in 1..Len(s) : t = SubSeq(s, 1, n - 1) \o SubSeq(s, n + 1, Len(s))

\* C19: a call of an unsubscribe function removes at most the one
\* registration it was returned for: the array of its type loses at most one
\* element and keeps the others in order, the arrays of the other types stay
\* as they are, and a call for a callback that is no longer registered
\* changes nothing.
C19_UnsubscribeRemovesOne ==
    [][\A h \in EventTypes \X Callbacks :
          Unsubscribe(h)
              => /\ DOMAIN onMessageCallbacks' = DOMAIN onMessageCallbacks
                 /\ DropsAtMostOne(onMessageCallbacks[h[1]], onMessageCallbacks'[h[1]])
                 /\ \A type \in DOMAIN onMessageCallbacks \ {h[1]} :
                        onMessageCallbacks'[type] = onMessageCallbacks[type]
                 /\ (\A n \in 1..Len(onMessageCallbacks[h[1]]) :
                        onMessageCallbacks[h[1]][n] # h[2])
                      => onMessageCallbacks' = onMessageCallbacks]_vars

\* C20: an onmessage run on a frame that is not JSON, or is a JSON object
\* without a type, calls no callback and changes neither the subscriptions
\* nor the connection nor the Session.
C20_MalformedDiscarded ==
    [][\A id \in SocketIds : \A frame \in Frames :
          (~WellFormed(frame) /\ SocketMessage(id, frame))
              => /\ invoked' = <<>>
                 /\ UNCHANGED <<onMessageCallbacks, connection, session>>]_vars

\* C21: a send call never throws; when the service is not connected it
\* returns false and transmits nothing; otherwise it returns true and
\* transmits its message on the socket of the service; it changes nothing
\* else.
C21_SendSoftFailure ==
    [][Send
          => /\ lastSend'.returned # "threw"
             /\ ~connected => lastSend' = [returned |-> "false", on |-> 0]
             /\ connected => lastSend' = [returned |-> "true", on |-> socket]
             /\ UNCHANGED <<readyState, nextSocket, socket, connected,
                            promise, lastConnect, timers, subscriptions>>]_vars

\* C23: disconnect leaves socket null and connected false, and while the
\* socket stays null (no connect call since the disconnect) no reconnect
\* timer fires and opens a new connection.
C23_DisconnectReleasesReconnect ==
    [][/\ Disconnect => socket' = 0 /\ ~connected'
       /\ \A id \in SocketIds : TimerFire(id) => socket # 0]_vars

\* C22: once the component is unmounted no /api/status request is issued
\* and no poll result changes the Session.
C22_UnmountStopsPolling ==
    [][~mounted => /\ \A i \in IntervalIds : ~Tick(i)
                   /\ UNCHANGED session]_vars

\* C30: a shopping-list response that arrives while a query is processing
\* was fetched for an earlier query (the fetch starts when the terminal
\* state is observed, which ends processing, and only a later accepted
\* submission starts it again); such a response does not change the
\* shopping list.
C30_StaleListNotApplied ==
    [][\A i \in IntervalIds, list \in ListPayloads :
          ListResponse(i, list) /\ isProcessing
              => shoppingList' = shoppingList]_vars

\* no effect of BrowserSimulation is waiting for a render
Settled ==
    /\ activityRef = effectDeps
    /\ resultsDeps = <<shoppingList, activeStore>>

\* the displayed items the specification describes
ExpectedItems ==
    IF Len(StoreItems(shoppingList, activeStore)) > 0
    THEN Slice(StoreItems(shoppingList, activeStore), 3)
    ELSE Slice(shoppingList, 3)

\* C28: once the view has settled, the displayed items are the first three
\* items of the current shopping list whose store contains the active
\* store, or the first three items of the list when none does; so they are
\* at most three and all of them are in the current list.
C28_DisplayedItemsFollowList ==
    Settled => /\ displayedItems = ExpectedItems
               /\ Len(displayedItems) <= 3
               /\ \A k \in 1..Len(displayedItems) :
                      \E n \in 1..Len(shoppingList) :
                          shoppingList[n] = displayedItems[k]

\* C29: the ids of the entries of the browser history are pairwise
\* distinct.
C29_HistoryIdsDistinct ==
    \A m, n \in 1..Len(browserHistory) :
        browserHistory[m].id = browserHistory[n].id => m = n

\* C24 as stated: handleResponse returns the parsed body of a 2xx response;
\* for a non-2xx response it throws an error whose status is the HTTP
\* status, whose data is the parsed body (null when it does not parse) and
\* whose message is the message field of the body when the body has one,
\* else the text made of the status code and status text; no fetch follows.
C24_HandleResponseAsStated ==
    [][HandleResponse =>
          /\ fetches' = fetches
          /\ (response.ok /\ response.body.parses)
                => outcome' = [kind |-> "returned", value |-> response.body.value]
          /\ ~response.ok
                => /\ outcome'.kind = "threw"
                   /\ outcome'.error.status = response.status
                   /\ outcome'.error.data = ErrorData(response)
                   /\ outcome'.error.message =
                        IF /\ ErrorData(response) # Null
                           /\ "message" \in DOMAIN ErrorData(response)
                        THEN StringOf(ErrorData(response).message)
                        ELSE ErrorMessageSynthesized(ErrorData(response), response)]_vars

\* C24 amended: as above, with the message being the message field of the
\* body only when that field is truthy (not '' and not 0), and the
\* synthesized text otherwise.
C24_HandleResponse ==
    [][HandleResponse =>
          /\ fetches' = fetches
          /\ (response.ok /\ response.body.parses)
                => outcome' = [kind |-> "returned", value |-> response.body.value]
          /\ ~response.ok
                => /\ outcome'.kind = "threw"
                   /\ outcome'.error.status = response.status
                   /\ outcome'.error.data = ErrorData(response)
                   /\ outcome'.error.message =
                        IF /\ ErrorData(response) # Null
                           /\ "message" \in DOMAIN ErrorData(response)
                           /\ Truthy(ErrorData(response).message)
                        THEN StringOf(ErrorData(response).message)
                        ELSE ErrorMessageSynthesized(ErrorData(response), response)]_vars

\* a 404 whose body has an empty message has been turned into an error
\* with the synthesized message
C24_Witness ==
    /\ response.state = "received"
    /\ response.status = 404
    /\ response.body = [parses |-> TRUE, value |-> [message |-> Str("")]]
    /\ outcome.kind = "threw"
    /\ outcome.error.message = "API error: 404 Error"

\* the sum of the numbers of a sequence
RECURSIVE SumSeq(_)
SumSeq(seq) == IF seq = <<>> THEN 0 ELSE Head(seq) + SumSeq(Tail(seq))

\* the sum of f[g] over the keys g in S
RECURSIVE SumOver(_, _)
SumOver(f, S) ==
    IF S = {} THEN 0
    ELSE LET g == CHOOSE x \in S : TRUE
         IN  f[g] + SumOver(f, S \ {g})

\* the value of the grouping field of the item, "Other" when it has none
FieldOrOther(item, key) == IF key \in DOMAIN item THEN item[key] ELSE "Other"

\* C25: every render groups the items into a partition of the list: the
\* group of a key holds, in order, exactly the items whose grouping field
\* (or "Other" when absent) is that key; the line totals of all groups sum
\* to the grand total; and changing the grouping key leaves the grand total
\* unchanged.
C25_GroupsPartitionAndTotals ==
    [][/\ ~rendered'.threw
       /\ \A g \in DOMAIN rendered'.groupedItems :
              /\ rendered'.groupedItems[g] # <<>>
              /\ rendered'.groupedItems[g] =
                    SelectSeq(items', LAMBDA item : FieldOrOther(item, groupBy') = g)
       /\ \A n \in 1..Len(items') :
              FieldOrOther(items'[n], groupBy') \in DOMAIN rendered'.groupedItems
       /\ SumOver([g \in DOMAIN rendered'.lineTotals |-> SumSeq(rendered'.lineTotals[g])],
                  DOMAIN rendered'.lineTotals) = rendered'.totalCost
       /\ (\E key \in GroupKeys : SetGroupBy(key)) /\ ~rendered.threw
              => rendered'.totalCost = rendered.totalCost]_vars

\* the class of labels the categories of the list select
LabelClass(list) ==
    IF \E n \in 1..Len(list) :
           "category" \in DOMAIN list[n] /\ ToLowerCase(list[n].category) \in TechKeywords
    THEN <<"Tech Products", "Purchase Selected">>
    ELSE IF \E n \in 1..Len(list) :
           "category" \in DOMAIN list[n] /\ ToLowerCase(list[n].category) \in TravelKeywords
    THEN <<"Travel Options", "Book Selected">>
    ELSE IF \E n \in 1..Len(list) :
           "category" \in DOMAIN list[n] /\ ToLowerCase(list[n].category) \in FinanceKeywords
    THEN <<"Investment Options", "Invest Now">>
    ELSE <<"Shopping List", "Checkout">>

\* C26: the result label is "Tech Products" when some lower-cased category
\* is a tech keyword, else "Travel Options" when some is a travel keyword,
\* else "Investment Options" when some is a finance keyword, else "Shopping
\* List"; the button label is the one of the same class; a render that
\* completes shows these two.
C26_LabelByPriority ==
    /\ <<ResultType(items), ButtonLabel(items)>> = LabelClass(items)
    /\ ~rendered.threw
          => <<rendered.resultType, rendered.buttonLabel>> = LabelClass(items)

\* a list with a travel item before a tech item has been rendered as tech
C26_Witness ==
    /\ Len(items) >= 2
    /\ items[1].name = "room"
    /\ items[2].name = "laptop"
    /\ ~rendered.threw
    /\ rendered.resultType = "Tech Products"
    /\ rendered.buttonLabel = "Purchase Selected"

\* price times quantity when the item has a quantity, price otherwise
ExpectedLineTotal(item) ==
    IF "quantity" \in DOMAIN item THEN item.price * item.quantity ELSE item.price

\* C27: in a render that completes, the line total of every item is its
\* price times its quantity when it has one (0 included) and its price
\* when it has none, and the grand total is the sum of these line totals.
C27_LineTotals ==
    ~rendered.threw
        => /\ \A g \in DOMAIN rendered.groupedItems :
                  \A n \in 1..Len(rendered.groupedItems[g]) :
                      rendered.lineTotals[g][n] =
                          ExpectedLineTotal(rendered.groupedItems[g][n])
           /\ rendered.totalCost =
                  SumSeq([n \in 1..Len(items) |-> ExpectedLineTotal(items[n])])

\* C33: whenever the connected flag is true, the socket of the service is
\* not null and is a WebSocket that is open.
C33_ConnectedMeansOpenSocket ==
    connected => socket # 0 /\ readyState[socket] = "open"

\* how many times x occurs in the sequence
Count(seq, x) == Len(SelectSeq(seq, LAMBDA y : y = x))

\* C34: an onmessage run on a well-formed message calls every callback
\* registered under "message" once per registration as a wildcard
\* subscriber, whatever the type of the message: a callback is called as
\* often as it is registered under "message", plus as often as it is
\* registered under the type of the message when that is another type.
C34_WildcardOncePerMessage ==
    [][\A id \in SocketIds : \A frame \in Frames :
          (WellFormed(frame) /\ SocketMessage(id, frame))
              => \A cb \in Callbacks :
                    Count(invoked', cb) =
                        Count(Subscribers("message"), cb)
                            + IF frame.type # "message"
                              THEN Count(Subscribers(frame.type), cb)
                              ELSE 0]_vars

\* C31: at most one status poll interval is active, and an interval is
\* active only while the processing flag is true.
C31_OnePollLoopWhileProcessing ==
    /\ Cardinality(intervals) <= 1
    /\ intervals # {} => isProcessing

\* C32: once the backend answers every poll with a terminal task, every
\* active poll loop is eventually stopped by its own callback with the
\* processing flag false; a failed poll leaves the loops as they are.
C32_PollLoopTerminates ==
    /\ \A i \in IntervalIds :
          (backendTerminal /\ i \in intervals)
              ~> (i \notin intervals /\ ~isProcessing)
    /\ [][\A i \in IntervalIds : PollFailure(i) => UNCHANGED <<intervals, isProcessing>>]_vars

\* the loop of the second query has been stopped by a terminal answer after
\* the backend had finished
C32_Witness ==
    /\ backendTerminal
    /\ nextInterval = 3
    /\ intervals = {}
    /\ ~isProcessing
    /\ IsTerminal(currentTask)

====
